---- MODULE Spec2Model ----
(***************************************************************************)
(* A model of ts-env: the Environment accessor (src/src/environment.ts),   *)
(* the variable builders (src/src/variable.ts) and EnvironmentError        *)
(* (src/src/error.ts).                                                     *)
(*                                                                         *)
(* Representation.  A raw value (a JavaScript string held by the store) is *)
(* a sequence of one-character strings, so that toLowerCase, trim, Number  *)
(* and RegExp.test are computed character by character.  Keys, messages    *)
(* and tags are TLA+ strings.  An optional value (string | undefined, an   *)
(* optional field of an error) is <<>> for undefined and <<v>> for v.  A   *)
(* variable config is a record holding exactly the fields that are set, so *)
(* `cfg.f !== undefined` is `"f" \in DOMAIN cfg`.  The schema and the      *)
(* store are finite mappings from keys, as their declared types say.       *)
(***************************************************************************)
EXTENDS Integers, Sequences, FiniteSets, TLC

VARIABLES
  config,     \* Environment.config: the schema, key -> variable config
  store,      \* Environment.store: key -> optional raw value
  lastIndex,  \* RegExp.lastIndex of the pattern object held by each config
  frames,     \* the withVars invocations whose fn is still running (a stack)
  ret         \* what the last completed operation returned or raised

vars == <<config, store, lastIndex, frames, ret>>

(***************************************************************************)
(* Bounds of the model.                                                    *)
(***************************************************************************)
MaxRawLen == 3   \* longest raw value enumerated over an alphabet
MaxDepth == 2    \* deepest nesting of withVars

(***************************************************************************)
(* Optional values.                                                        *)
(***************************************************************************)
Undefined == <<>>
Some(v) == <<v>>
IsDefined(o) == o # <<>>
Get1(o) == o[1]

(***************************************************************************)
(* Strings as character sequences.                                         *)
(***************************************************************************)
UpperCase == <<"A","B","C","D","E","F","G","H","I","J","K","L","M",
               "N","O","P","Q","R","S","T","U","V","W","X","Y","Z">>
LowerCase == <<"a","b","c","d","e","f","g","h","i","j","k","l","m",
               "n","o","p","q","r","s","t","u","v","w","x","y","z">>

\* String.prototype.toLowerCase, one character
ToLowerChar(c) ==
  IF \E i \in 1..26 : UpperCase[i] = c
  THEN LowerCase[CHOOSE i \in 1..26 : UpperCase[i] = c]
  ELSE c

\* String.prototype.toLowerCase
ToLowerCase(s) == [i \in 1..Len(s) |-> ToLowerChar(s[i])]

\* the characters String.prototype.trim and Number() strip
WhiteSpace == {" ", "\t", "\n", "\r"}

RECURSIVE TrimStart(_)
TrimStart(s) ==
  IF s # <<>> /\ Head(s) \in WhiteSpace THEN TrimStart(Tail(s)) ELSE s

RECURSIVE TrimEnd(_)
TrimEnd(s) ==
  IF s # <<>> /\ s[Len(s)] \in WhiteSpace
  THEN TrimEnd(SubSeq(s, 1, Len(s) - 1))
  ELSE s

\* String.prototype.trim
Trim(s) == TrimEnd(TrimStart(s))

\* all strings over alphabet A of length at most n
RECURSIVE StringsUpTo(_, _)
StringsUpTo(A, n) ==
  IF n = 0 THEN {<<>>}
  ELSE LET shorter == StringsUpTo(A, n - 1)
       IN shorter \cup {Append(s, c) : s \in shorter, c \in A}

(***************************************************************************)
(* Numbers.  A finite number is the decimal fraction n / d, d a power of   *)
(* ten, in lowest such terms; NaN is a value of its own.  Number() is      *)
(* modelled on decimal literals without exponent: optional white space,    *)
(* optional sign, digits with an optional fraction.  The raw values of the *)
(* model hold no exponent, radix prefix or "Infinity" literal.             *)
(***************************************************************************)
NaN == [t |-> "nan"]
IsNaN(v) == v.t = "nan"

RECURSIVE Normalize(_, _)
Normalize(n, d) ==
  IF d > 1 /\ n % 10 = 0 THEN Normalize(n \div 10, d \div 10)
  ELSE [t |-> "num", n |-> n, d |-> d]

Num(n) == [t |-> "num", n |-> n, d |-> 1]
Dec(n, d) == Normalize(n, d)

Digits == <<"0","1","2","3","4","5","6","7","8","9">>
IsDigit(c) == \E i \in 1..10 : Digits[i] = c
DigitVal(c) == (CHOOSE i \in 1..10 : Digits[i] = c) - 1

RECURSIVE DigitsVal(_)
DigitsVal(s) ==
  IF s = <<>> THEN 0
  ELSE DigitsVal(SubSeq(s, 1, Len(s) - 1)) * 10 + DigitVal(s[Len(s)])

RECURSIVE Pow10(_)
Pow10(k) == IF k = 0 THEN 1 ELSE 10 * Pow10(k - 1)

AllDigits(s) == \A i \in 1..Len(s) : IsDigit(s[i])

\* the position of the first "." of s, or 0
DotIndex(s) ==
  IF \E i \in 1..Len(s) : s[i] = "."
  THEN CHOOSE i \in 1..Len(s) : s[i] = "." /\ \A j \in 1..(i - 1) : s[j] # "."
  ELSE 0

\* an unsigned decimal literal: digits, digits "." [digits], "." digits
UnsignedDecimal(s) ==
  LET dot == DotIndex(s)
      int == IF dot = 0 THEN s ELSE SubSeq(s, 1, dot - 1)
      frac == IF dot = 0 THEN <<>> ELSE SubSeq(s, dot + 1, Len(s))
  IN IF AllDigits(int) /\ AllDigits(frac) /\ Len(int) + Len(frac) >= 1
     THEN Dec(DigitsVal(int \o frac), Pow10(Len(frac)))
     ELSE NaN

\* Number(raw): StringToNumber
StringToNumber(raw) ==
  LET s == Trim(raw)
  IN IF s = <<>> THEN Num(0)
     ELSE IF Head(s) \in {"+", "-"}
     THEN LET v == UnsignedDecimal(Tail(s))
          IN IF IsNaN(v) \/ Head(s) = "+" THEN v ELSE Dec(0 - v.n, v.d)
     ELSE UnsignedDecimal(s)

\* Number.isInteger, on a number that is not NaN
IsInteger(v) == v.n % v.d = 0

\* a < b and a > b on numbers that are not NaN
Less(a, b) == a.n * b.d < b.n * a.d
Greater(a, b) == Less(b, a)

(***************************************************************************)
(* Values a variable can take, tagged by kind.                             *)
(***************************************************************************)
StrV(s) == [t |-> "str", s |-> s]
BoolV(b) == [t |-> "bool", b |-> b]

\* Duration.from(num, unit): the opaque value object of @ellefe/ts-core
DurationFrom(num, unit) == [t |-> "dur", n |-> num.n, d |-> num.d, unit |-> unit]

(***************************************************************************)
(* Result<T, E> of @ellefe/ts-core, and a raised exception.                *)
(***************************************************************************)
Ok(v) == [tag |-> "ok", value |-> v]
Err(e) == [tag |-> "err", error |-> e]
Throw(e) == [tag |-> "throw", error |-> e]
IsOk(r) == r.tag = "ok"
IsErr(r) == r.tag = "err"
IsThrow(r) == r.tag = "throw"

\* Result.mapErr: a raised exception is not a Result and passes through
MapErr(r, F(_)) == IF IsErr(r) THEN Err(F(r.error)) ELSE r

\* Result.map
Map(r, F(_)) == IF IsOk(r) THEN Ok(F(r.value)) ELSE r

\* Result._unwrap: the value, or the carried error raised
Unwrap(r) == IF IsErr(r) THEN Throw(r.error) ELSE r

(***************************************************************************)
(* EnvironmentErrorType and EnvironmentVariableType.                       *)
(***************************************************************************)
VariableNotFoundError == "not-found-error"
VariableParseError == "parse-error"
VariableUnknownError == "unknown-error"

TypeString == "string"
TypeNumber == "number"
TypeBoolean == "boolean"
TypeEnum == "enum"
TypeDuration == "duration"

(***************************************************************************)
(* EnvironmentError.                                                       *)
(***************************************************************************)
\* new EnvironmentError(type, key, config?, raw?)
NewEnvironmentError(type, key, cfg, raw) ==
  [type |-> type, key |-> key, config |-> cfg, raw |-> raw,
   message |-> "Error getting environment variable " \o key]

\* EnvironmentError.withMessage
WithMessage(e, message) == [e EXCEPT !.message = message]

IsEnvironmentError(e) ==
  DOMAIN e = {"type", "key", "config", "raw", "message"}

(***************************************************************************)
(* The variable builders: { type: <tag>, ...options }.  The spread comes   *)
(* last, so a field of options wins over the injected one.                 *)
(***************************************************************************)
NoOptions == [f \in {} |-> f]

\* stringVar that injects the tag of a number variable
stringVar_NumberTag(options) == options @@ [type |-> TypeNumber]

stringVar(options) == options @@ [type |-> TypeString]
numberVar(options) == options @@ [type |-> TypeNumber]
booleanVar(options) == options @@ [type |-> TypeBoolean]
enumVar(enumType, options) == options @@ [type |-> TypeEnum, enum |-> enumType]
durationVar(unit, options) == options @@ [type |-> TypeDuration, unit |-> unit]

\* cfg.f !== undefined
Has(cfg, f) == f \in DOMAIN cfg

(***************************************************************************)
(* Regular expressions.  A pattern is its source text (compiled by every   *)
(* parse) or a RegExp object (compiled once, carrying lastIndex when it    *)
(* has the global flag).  The sources of the model are literal characters  *)
(* and "(", which opens a group that is never closed.                      *)
(***************************************************************************)
PatternText(source) == [kind |-> "string", source |-> source]
RegExpObject(source, global) ==
  [kind |-> "regexp", source |-> source, global |-> global]

\* what new RegExp(source) raises on a source that does not compile
SyntaxError == [name |-> "SyntaxError"]

\* isString(cfg.pattern)
IsString(p) == p.kind = "string"

\* whether new RegExp(source) compiles; otherwise it raises a SyntaxError
SourceCompiles(source) == \A i \in 1..Len(source) : source[i] # "("

\* the end index of the first occurrence of source in raw that starts at index
\* from (0-based) or later, or -1
MatchEnd(source, raw, from) ==
  LET starts == {i \in from..(Len(raw) - Len(source)) :
                   SubSeq(raw, i + 1, i + Len(source)) = source}
  IN IF starts = {} THEN 0 - 1
     ELSE (CHOOSE i \in starts : \A j \in starts : i <= j) + Len(source)

\* RegExp.prototype.test: [matched, lastIndex afterwards]
RegExpTest(source, global, li, raw) ==
  IF ~global THEN [matched |-> MatchEnd(source, raw, 0) >= 0, lastIndex |-> li]
  ELSE IF li > Len(raw) THEN [matched |-> FALSE, lastIndex |-> 0]
  ELSE LET e == MatchEnd(source, raw, li)
       IN IF e < 0 THEN [matched |-> FALSE, lastIndex |-> 0]
          ELSE [matched |-> TRUE, lastIndex |-> e]

(***************************************************************************)
(* The per-type parsers.  Each returns Result<T, string> in field res; the *)
(* string parser also returns the lastIndex it leaves in the pattern.      *)
(***************************************************************************)
DEFAULT_VALID_TRUE_VALUES == << <<"t","r","u","e">>, <<"1">>, <<"y","e","s">>, <<"y">> >>
DEFAULT_VALID_FALSE_VALUES == << <<"f","a","l","s","e">>, <<"0">>, <<"n","o">>, <<"n">> >>

\* Array.prototype.includes
Includes(list, s) == \E i \in 1..Len(list) : list[i] = s

parseAsBoolean(raw, cfg) ==
  LET validFalseValues == IF Has(cfg, "validFalseValues")
                          THEN cfg.validFalseValues ELSE DEFAULT_VALID_FALSE_VALUES
      validTrueValues == IF Has(cfg, "validTrueValues")
                         THEN cfg.validTrueValues ELSE DEFAULT_VALID_TRUE_VALUES
  IN IF Includes(validTrueValues, ToLowerCase(raw)) THEN Ok(BoolV(TRUE))
     ELSE IF Includes(validFalseValues, ToLowerCase(raw)) THEN Ok(BoolV(FALSE))
     ELSE Err("the value is not a boolean")

\* parseAsNumber with the minimum taken as an exclusive bound
parseAsNumber_ExclusiveMin(raw, cfg) ==
  LET parsed == StringToNumber(raw)
  IN IF IsNaN(parsed) THEN Err("the value is not a number")
     ELSE IF Has(cfg, "format") /\ cfg.format = "integer" /\ ~IsInteger(parsed)
     THEN Err("the value is not an integer")
     ELSE IF Has(cfg, "min") /\ ~Greater(parsed, cfg.min)
     THEN Err("the value is less than the minimum")
     ELSE IF Has(cfg, "max") /\ Greater(parsed, cfg.max)
     THEN Err("the value is greater than the maximum")
     ELSE Ok(parsed)

parseAsNumber(raw, cfg) ==
  LET parsed == StringToNumber(raw)
  IN IF IsNaN(parsed) THEN Err("the value is not a number")
     ELSE IF Has(cfg, "format") /\ cfg.format = "integer" /\ ~IsInteger(parsed)
     THEN Err("the value is not an integer")
     ELSE IF Has(cfg, "min") /\ Less(parsed, cfg.min)
     THEN Err("the value is less than the minimum")
     ELSE IF Has(cfg, "max") /\ Greater(parsed, cfg.max)
     THEN Err("the value is greater than the maximum")
     ELSE Ok(parsed)

\* parseAsDuration with the number parsed as an integer
parseAsDuration_Integer(raw, cfg) ==
  Map(parseAsNumber(raw, [type |-> TypeNumber, format |-> "integer"]),
      LAMBDA num : DurationFrom(num, cfg.unit))

parseAsDuration(raw, cfg) ==
  Map(parseAsNumber(raw, [type |-> TypeNumber]),
      LAMBDA num : DurationFrom(num, cfg.unit))

\* an enum is an array of values or an enum-like object (name -> value)
EnumArray(values) == [kind |-> "array", values |-> values]
EnumObject(names, values) == [kind |-> "object", names |-> names, values |-> values]

\* Array.isArray(cfg.enum) ? cfg.enum : Object.values(cfg.enum)
EnumValues(e) == e.values

\* parseAsEnum with the raw value lower-cased before the lookup
parseAsEnum_IgnoreCase(raw, cfg) ==
  LET values == EnumValues(cfg.enum)
  IN IF ~Includes(values, ToLowerCase(raw)) THEN Err("the value is not in the enum")
     ELSE Ok(StrV(raw))

parseAsEnum(raw, cfg) ==
  LET values == EnumValues(cfg.enum)
  IN IF ~Includes(values, raw) THEN Err("the value is not in the enum")
     ELSE Ok(StrV(raw))

parseAsString(raw, cfg, li) ==
  IF Has(cfg, "pattern")
  THEN IF IsString(cfg.pattern) /\ ~SourceCompiles(cfg.pattern.source)
       THEN [res |-> Throw(SyntaxError), lastIndex |-> li]
       ELSE LET global == IF IsString(cfg.pattern) THEN FALSE ELSE cfg.pattern.global
                t == RegExpTest(cfg.pattern.source, global, li, raw)
            IN [res |-> IF ~t.matched
                        THEN Err("the value does not match the pattern")
                        ELSE Ok(StrV(raw)),
                lastIndex |-> t.lastIndex]
  ELSE IF ~(Has(cfg, "shouldAllowEmpty") /\ cfg.shouldAllowEmpty = TRUE)
          /\ Trim(raw) = <<>>
  THEN [res |-> Err("the value is empty"), lastIndex |-> li]
  ELSE [res |-> Ok(StrV(raw)), lastIndex |-> li]

(***************************************************************************)
(* Environment: the private helpers.                                       *)
(***************************************************************************)
\* Environment.constructResult: a parser's error text becomes a
\* VariableParseError; a value, or an exception the parser raised, passes
constructResult(parsed, key, cfg, raw) ==
  MapErr(parsed,
         LAMBDA text :
           WithMessage(
             NewEnvironmentError(VariableParseError, key, Some(cfg), Some(raw)),
             "Error parsing env var " \o key \o ": " \o text))

UnknownMessage ==
  "The environment variable is not defined in the configuration. Please check the configuration."

\* UnknownResult with the error built as a VariableNotFoundError
UnknownResult_AsNotFound(key) ==
  Err(NewEnvironmentError(VariableNotFoundError, key, Undefined, Undefined))

\* getInner, the key has no config: err(VariableUnknownError)
UnknownResult(key) ==
  Err(WithMessage(NewEnvironmentError(VariableUnknownError, key,
                                      Undefined, Undefined),
                  UnknownMessage))

\* JavaScript truthiness of a variable's value
Truthy(v) ==
  CASE v.t = "bool" -> v.b
    [] v.t = "num" -> v.n # 0
    [] v.t = "str" -> v.s # <<>>
    [] OTHER -> TRUE

\* AbsentResult with `if (cfg.default)` for `if (cfg.default !== undefined)`
AbsentResult_TruthyDefault(cfg, key) ==
  IF Has(cfg, "default") /\ Truthy(cfg.default)
  THEN Ok(cfg.default)
  ELSE Err(NewEnvironmentError(VariableNotFoundError, key, Some(cfg), Undefined))

\* AbsentResult with the config left out of the error
AbsentResult_NoConfig(cfg, key) ==
  IF Has(cfg, "default")
  THEN Ok(cfg.default)
  ELSE Err(NewEnvironmentError(VariableNotFoundError, key, Undefined, Undefined))

\* getInner, the raw value is undefined: the default, or
\* err(VariableNotFoundError)
AbsentResult(cfg, key) ==
  IF Has(cfg, "default")
  THEN Ok(cfg.default)
  ELSE Err(NewEnvironmentError(VariableNotFoundError, key, Some(cfg), Undefined))

\* getInner, the switch on cfg.type: [res, lastIndex]
ParseResult(cfg, key, raw, li) ==
  CASE cfg.type = TypeString ->
         LET p == parseAsString(raw, cfg, li)
         IN [res |-> constructResult(p.res, key, cfg, raw),
             lastIndex |-> p.lastIndex]
    [] cfg.type = TypeNumber ->
         [res |-> constructResult(parseAsNumber(raw, cfg), key, cfg, raw),
          lastIndex |-> li]
    [] cfg.type = TypeBoolean ->
         [res |-> constructResult(parseAsBoolean(raw, cfg), key, cfg, raw),
          lastIndex |-> li]
    [] cfg.type = TypeEnum ->
         [res |-> constructResult(parseAsEnum(raw, cfg), key, cfg, raw),
          lastIndex |-> li]
    [] cfg.type = TypeDuration ->
         [res |-> constructResult(parseAsDuration(raw, cfg), key, cfg, raw),
          lastIndex |-> li]
    [] OTHER -> [res |-> [tag |-> "undefined"], lastIndex |-> li]

\* Environment.getInner on schema cfgs, store st and the pattern's lastIndex
\* li: [res: what it returns or raises, lastIndex: what it leaves in li]
getInner(cfgs, st, li, key) ==
  IF key \notin DOMAIN cfgs
  THEN [res |-> UnknownResult(key), lastIndex |-> li]
  ELSE IF st[key] = Undefined
  THEN [res |-> AbsentResult(cfgs[key], key), lastIndex |-> li]
  ELSE ParseResult(cfgs[key], key, Get1(st[key]), li)

\* getInner in the current state
GetInnerNow(key) == getInner(config, store, lastIndex[key], key)

(***************************************************************************)
(* The inputs of the model: keys, schemas, raw values.                     *)
(***************************************************************************)
Keys == {"A", "B"}

\* the order in which Object.entries and for-in visit the keys
KeyOrder == <<"A", "B">>

\* the options stringVar is called with
StringOptions ==
  { NoOptions,
    [default |-> StrV(<<"d","e","f">>)],
    [default |-> StrV(<<>>)],
    [shouldAllowEmpty |-> TRUE],
    [shouldAllowEmpty |-> FALSE],
    [pattern |-> PatternText(<<"a","b">>)],
    [pattern |-> PatternText(<<"a","b">>), shouldAllowEmpty |-> TRUE],
    [pattern |-> PatternText(<<"a","b">>), default |-> StrV(<<"z">>)],
    [pattern |-> PatternText(<<>>)],
    [pattern |-> PatternText(<<"(">>)],
    [pattern |-> PatternText(<<"(">>), default |-> StrV(<<"a">>)],
    [pattern |-> RegExpObject(<<"a">>, FALSE)],
    [pattern |-> RegExpObject(<<"a">>, TRUE)] }

StringConfigs == {stringVar(o) : o \in StringOptions}

\* the options numberVar is called with
NumberOptions ==
  { NoOptions,
    [default |-> Num(42)],
    [default |-> Num(0)],
    [format |-> "integer"],
    [format |-> "decimal"],
    [min |-> Num(1)],
    [max |-> Num(10)],
    [format |-> "integer", min |-> Num(1), max |-> Num(10)],
    [min |-> Num(10), max |-> Num(1)],
    [min |-> Num(1), max |-> Num(10), default |-> Num(42)],
    [min |-> Num(1), default |-> Num(0)] }

NumberConfigs == {numberVar(o) : o \in NumberOptions}

\* the options booleanVar is called with
BooleanOptions ==
  { NoOptions,
    [default |-> BoolV(TRUE)],
    [default |-> BoolV(FALSE)],
    [validTrueValues |-> << <<"o","n">> >>,
     validFalseValues |-> << <<"o","f","f">> >>],
    [validTrueValues |-> << <<"Y","E","S">> >>,
     validFalseValues |-> << <<"N","O">> >>],
    [validTrueValues |-> << <<"y">>, <<"o","n">> >>,
     validFalseValues |-> << <<"y">>, <<"n">> >>] }

BooleanConfigs == {booleanVar(o) : o \in BooleanOptions}

\* the enums enumVar is called with, and its options
EnumTypes ==
  { EnumArray(<< <<"a">>, <<"b">>, <<"c">> >>),
    EnumObject(<<"A", "B", "C">>, << <<"a">>, <<"b">>, <<"c">> >>) }

EnumOptions ==
  { NoOptions, [default |-> StrV(<<"a">>)], [default |-> StrV(<<"z">>)] }

EnumConfigs == {enumVar(e, o) : e \in EnumTypes, o \in EnumOptions}

\* the units durationVar is called with, and its options
DurationUnits == {"seconds", "milliseconds"}

DurationOptions ==
  { NoOptions, [default |-> DurationFrom(Num(30), "seconds")] }

DurationConfigs == {durationVar(u, o) : u \in DurationUnits, o \in DurationOptions}

\* every variable config the model builds
ConfigSet ==
  StringConfigs \cup NumberConfigs \cup BooleanConfigs \cup EnumConfigs
    \cup DurationConfigs

\* raw values of the tests and of the specification's examples
ExampleRaws ==
  { <<"v","a","l","u","e">>, <<"4","2">>, <<"4","2",".","5">>, <<"0">>, <<"1","1">>,
    <<"n","o","t"," ","a"," ","n","u","m","b","e","r">>,
    <<"f","a","l","s","e">>, <<"t","r","u","e">>, <<"T","R","U","E">>,
    <<"Y","E","S">>, <<"m","a","y","b","e">>, <<"o","n">>, <<"O","F","F">>,
    <<"b">>, <<"d">>, <<"B">>, <<"3","0">>, <<"a","b","c">>, <<>>, <<" ">>,
    <<" ","4","2"," ">>, <<"a","b","a","b">> }

\* the raw values a config of the given type is tried on: every string up to
\* MaxRawLen over the characters its parser tells apart, and the examples
RawsFor(type) ==
  ExampleRaws \cup
  CASE type = TypeString -> StringsUpTo({"a", "b", " "}, MaxRawLen)
    [] type = TypeNumber -> StringsUpTo({"0", "1", ".", "-", " "}, MaxRawLen)
    [] type = TypeDuration -> StringsUpTo({"3", "0", ".", "x"}, MaxRawLen)
    [] type = TypeBoolean -> StringsUpTo({"y", "Y", "n", "N", "o"}, MaxRawLen)
    [] type = TypeEnum -> StringsUpTo({"a", "b", "B", " "}, MaxRawLen)

Optional(S) == {Undefined} \cup {Some(v) : v \in S}

\* the schemas of the accessor that is driven through all its operations
Schemas ==
  { [A |-> stringVar([pattern |-> RegExpObject(<<"a">>, TRUE)]),
     B |-> numberVar([min |-> Num(1), default |-> Num(0)])],
    [A |-> stringVar([pattern |-> PatternText(<<"(">>), default |-> StrV(<<"a">>)]),
     B |-> booleanVar(NoOptions)] }

\* the raw values set, unset and withVars write
StoreRaws == {<<"1">>, <<"a">>}

\* the overrides withVars is called with
Overrides ==
  { [A |-> Some(<<"1">>), B |-> Undefined] }

\* what fn returns
FnResults == {"r1", "r2"}

\* the override messages getExpect is called with
Messages == {Undefined, Some("custom message")}

(***************************************************************************)
(* Environment: the store operations.                                      *)
(***************************************************************************)
\* Environment.getRaw: this.store[key]
getRaw(st, key) == st[key]

\* set that writes to a copy of the store taken by the constructor: the
\* injected mapping stays as it is
set_OnCopy(st, key, value) == st

\* set that writes only defined values
set_IgnoreUndefined(st, key, value) ==
  IF value = Undefined THEN st ELSE [st EXCEPT ![key] = value]

\* Environment.set: this.store[key] = value
set(st, key, value) == [st EXCEPT ![key] = value]

\* Environment.unset: this.set(key, undefined)
unset(st, key) == set(st, key, Undefined)

\* Object.entries(o): the keys of o, in order
Entries(o) == SelectSeq(KeyOrder, LAMBDA k : k \in DOMAIN o)

\* withVars, the first loop: old[k] = this.getRaw(k); this.set(k, v)
RECURSIVE SaveAndSet(_, _, _, _)
SaveAndSet(keys, overrides, old, st) ==
  IF keys = <<>> THEN [old |-> old, store |-> st]
  ELSE LET k == Head(keys)
       IN SaveAndSet(Tail(keys), overrides, (k :> getRaw(st, k)) @@ old,
                     set(st, k, overrides[k]))

\* RestoreAll that restores only the keys that had a value
RECURSIVE RestoreAll_SkipUndefined(_, _, _)
RestoreAll_SkipUndefined(keys, old, st) ==
  IF keys = <<>> THEN st
  ELSE RestoreAll_SkipUndefined(
         Tail(keys), old,
         IF old[Head(keys)] = Undefined THEN st
         ELSE [st EXCEPT ![Head(keys)] = old[Head(keys)]])

\* withVars, the second loop: this.set(k, v) for every entry of old
RECURSIVE RestoreAll(_, _, _)
RestoreAll(keys, old, st) ==
  IF keys = <<>> THEN st
  ELSE RestoreAll(Tail(keys), old, set(st, Head(keys), old[Head(keys)]))

\* snapshot's for-in with its hasOwnProperty guard: the own keys, in order
OwnKeys(cfgs) == SelectSeq(KeyOrder, LAMBDA k : k \in DOMAIN cfgs)

\* snapshot's loop from the keys left: result[key] = getInner(key)._unwrap();
\* the first error or exception ends it.  [res, lastIndex]
RECURSIVE SnapshotLoop(_, _, _, _, _)
SnapshotLoop(keys, cfgs, st, li, result) ==
  IF keys = <<>> THEN [res |-> Ok(result), lastIndex |-> li]
  ELSE LET k == Head(keys)
           out == getInner(cfgs, st, li[k], k)
           r == Unwrap(out.res)
           li2 == [li EXCEPT ![k] = out.lastIndex]
       IN IF IsOk(r)
          THEN SnapshotLoop(Tail(keys), cfgs, st, li2, (k :> r.value) @@ result)
          ELSE [res |-> r, lastIndex |-> li2]

\* Environment.snapshot
snapshot(cfgs, st, li) == SnapshotLoop(OwnKeys(cfgs), cfgs, st, li, NoOptions)

\* getExpect that unwraps without applying the override message
getExpect_KeepMessage(res, message) == Unwrap(res)

\* Environment.getExpect: mapErr to the override message, then _unwrap
getExpect(res, message) ==
  Unwrap(MapErr(res, LAMBDA e : IF IsDefined(message)
                                THEN WithMessage(e, Get1(message))
                                ELSE e))

\* what fn raises when it raises
FnError == [name |-> "Error"]

(***************************************************************************)
(* The operations as actions.  While frames is not empty the operations    *)
(* are calls made by the innermost running fn.                             *)
(***************************************************************************)
Get(key) ==
  LET out == GetInnerNow(key)
  IN /\ lastIndex' = [lastIndex EXCEPT ![key] = out.lastIndex]
     /\ ret' = [op |-> "get", key |-> key, res |-> out.res]
     /\ UNCHANGED <<config, store, frames>>

GetExpect(key, message) ==
  LET out == GetInnerNow(key)
  IN /\ lastIndex' = [lastIndex EXCEPT ![key] = out.lastIndex]
     /\ ret' = [op |-> "getExpect", key |-> key, message |-> message,
                res |-> getExpect(out.res, message)]
     /\ UNCHANGED <<config, store, frames>>

GetRaw(key) ==
  /\ ret' = [op |-> "getRaw", key |-> key, value |-> getRaw(store, key)]
  /\ UNCHANGED <<config, store, lastIndex, frames>>

Set(key, value) ==
  /\ store' = set(store, key, value)
  /\ ret' = [op |-> "set", key |-> key, value |-> value]
  /\ UNCHANGED <<config, lastIndex, frames>>

Unset(key) ==
  /\ store' = unset(store, key)
  /\ ret' = [op |-> "unset", key |-> key]
  /\ UNCHANGED <<config, lastIndex, frames>>

Snapshot ==
  LET out == snapshot(config, store, lastIndex)
  IN /\ lastIndex' = out.lastIndex
     /\ ret' = [op |-> "snapshot", res |-> out.res]
     /\ UNCHANGED <<config, store, frames>>

\* withVars up to the call of fn
WithVarsCall(overrides) ==
  /\ Len(frames) < MaxDepth
  /\ LET s == SaveAndSet(Entries(overrides), overrides, NoOptions, store)
     IN /\ store' = s.store
        /\ frames' = Append(frames,
                            [vars |-> overrides, old |-> s.old,
                             before |-> [k \in DOMAIN overrides |-> store[k]]])
  /\ ret' = [op |-> "withVars.call", vars |-> overrides]
  /\ UNCHANGED <<config, lastIndex>>

\* fn returns fnResult: withVars restores and returns it
WithVarsReturn(fnResult) ==
  /\ frames # <<>>
  /\ LET top == frames[Len(frames)]
     IN /\ store' = RestoreAll(Entries(top.old), top.old, store)
        /\ ret' = [op |-> "withVars", res |-> Ok(fnResult), fnResult |-> fnResult,
                   vars |-> top.vars, before |-> top.before]
  /\ frames' = SubSeq(frames, 1, Len(frames) - 1)
  /\ UNCHANGED <<config, lastIndex>>

\* WithVarsRaise with the restore loop in a finally block
WithVarsRaise_Restores ==
  /\ frames # <<>>
  /\ LET top == frames[Len(frames)]
     IN /\ store' = RestoreAll(Entries(top.old), top.old, store)
        /\ ret' = [op |-> "withVars", res |-> Throw(FnError),
                   vars |-> top.vars, before |-> top.before]
  /\ frames' = SubSeq(frames, 1, Len(frames) - 1)
  /\ UNCHANGED <<config, lastIndex>>

\* fn raises: the exception leaves withVars before its second loop
WithVarsRaise ==
  /\ frames # <<>>
  /\ LET top == frames[Len(frames)]
     IN ret' = [op |-> "withVars", res |-> Throw(FnError),
                vars |-> top.vars, before |-> top.before]
  /\ frames' = SubSeq(frames, 1, Len(frames) - 1)
  /\ UNCHANGED <<config, store, lastIndex>>

\* The injected mapping is one object: the accessor's this.store and every
\* other holder of it (the code that built it, another Environment
\* constructed on it) reach the same store.  Another holder writes a key:
OutsideWrite(key, value) ==
  /\ store' = [store EXCEPT ![key] = value]
  /\ ret' = [op |-> "outside.write", key |-> key, value |-> value]
  /\ UNCHANGED <<config, lastIndex, frames>>

\* another holder reads a key; afterWrite tells whether the operation before
\* it was a write made through the accessor
OutsideRead(key) ==
  /\ ret' = [op |-> "outside.read", key |-> key, value |-> store[key],
             afterWrite |-> ret.op \in {"set", "unset", "withVars.call", "withVars"}]
  /\ UNCHANGED <<config, store, lastIndex, frames>>

(***************************************************************************)
(* Spec: an accessor over one of Schemas, driven through every operation.  *)
(***************************************************************************)
Init ==
  /\ config \in Schemas
  /\ store \in [Keys -> Optional(StoreRaws)]
  /\ lastIndex = [k \in Keys |-> 0]
  /\ frames = <<>>
  /\ ret = [op |-> "init"]

Next ==
  \/ \E k \in Keys : Get(k)
  \/ \E k \in Keys, m \in Messages : GetExpect(k, m)
  \/ \E k \in Keys : GetRaw(k)
  \/ \E k \in Keys, v \in Optional(StoreRaws) : Set(k, v)
  \/ \E k \in Keys : Unset(k)
  \/ Snapshot
  \/ \E o \in Overrides : WithVarsCall(o)
  \/ \E r \in FnResults : WithVarsReturn(r)
  \/ WithVarsRaise
  \/ \E k \in Keys, v \in Optional(StoreRaws) : OutsideWrite(k, v)
  \/ \E k \in Keys : OutsideRead(k)

Spec == Init /\ [][Next]_vars

(***************************************************************************)
(* SpecParse: an accessor over a one-variable schema, for every config of  *)
(* ConfigSet and every raw value its type is tried on; get is applied.     *)
(***************************************************************************)
InitParse ==
  /\ config \in {[A |-> c] : c \in ConfigSet}
  /\ store \in {[A |-> r, B |-> z] :
                  r \in Optional(RawsFor(config.A.type)),
                  z \in Optional(StoreRaws)}
  /\ lastIndex = [k \in Keys |-> 0]
  /\ frames = <<>>
  /\ ret = [op |-> "init"]

NextParse == \E k \in Keys : Get(k)

SpecParse == InitParse /\ [][NextParse]_vars

(***************************************************************************)
(* SpecBuild: every builder is called on every options record of the       *)
(* model, an accessor is constructed over the entry it returns, and get is *)
(* applied.                                                                *)
(***************************************************************************)
\* the calls of the five builders
BuilderCalls ==
  {[kind |-> TypeString, options |-> o] : o \in StringOptions}
    \cup {[kind |-> TypeNumber, options |-> o] : o \in NumberOptions}
    \cup {[kind |-> TypeBoolean, options |-> o] : o \in BooleanOptions}
    \cup {[kind |-> TypeEnum, enum |-> e, options |-> o] :
            e \in EnumTypes, o \in EnumOptions}
    \cup {[kind |-> TypeDuration, unit |-> u, options |-> o] :
            u \in DurationUnits, o \in DurationOptions}

\* the builder of call.kind applied to the call's arguments
CallBuilder(call) ==
  CASE call.kind = TypeString -> stringVar(call.options)
    [] call.kind = TypeNumber -> numberVar(call.options)
    [] call.kind = TypeBoolean -> booleanVar(call.options)
    [] call.kind = TypeEnum -> enumVar(call.enum, call.options)
    [] call.kind = TypeDuration -> durationVar(call.unit, call.options)

\* new Environment({ A: <builder>(...) }, store)
Build(call) ==
  /\ DOMAIN config = {}
  /\ config' = [A |-> CallBuilder(call)]
  /\ ret' = [op |-> "build", call |-> call]
  /\ UNCHANGED <<store, lastIndex, frames>>

InitBuild ==
  /\ config = NoOptions
  /\ store \in {[A |-> r, B |-> Undefined] : r \in Optional(ExampleRaws)}
  /\ lastIndex = [k \in Keys |-> 0]
  /\ frames = <<>>
  /\ ret = [op |-> "init"]

NextBuild ==
  \/ \E call \in BuilderCalls : Build(call)
  \/ \E k \in Keys : Get(k)

SpecBuild == InitBuild /\ [][NextBuild]_vars

(***************************************************************************)
(* Claims.  ret describes the operation that has just completed; get,      *)
(* getRaw and getExpect leave the store as it was, so the store of the     *)
(* state is the store the operation read.                                  *)
(***************************************************************************)
\* get(key) has just returned for a key of the schema
GotKnown == ret.op = "get" /\ ret.key \in DOMAIN config

\* get(key) has just returned for a key of the schema that has a raw value
GotPresent == GotKnown /\ IsDefined(store[ret.key])

\* C1: for a key with no entry in the schema, get returns the failure variant
\* with a VariableUnknownError carrying the key, no config and no raw value,
\* whatever the store holds for the key.
C1_UnknownKey ==
  (ret.op = "get" /\ ret.key \notin DOMAIN config) =>
    /\ IsErr(ret.res)
    /\ IsEnvironmentError(ret.res.error)
    /\ ret.res.error.type = VariableUnknownError
    /\ ret.res.error.key = ret.key
    /\ ret.res.error.config = Undefined
    /\ ret.res.error.raw = Undefined

\* get on a key outside the schema for which the store holds a raw value
C1_Witness ==
  /\ ret.op = "get"
  /\ ret.key \notin DOMAIN config
  /\ IsDefined(store[ret.key])
  /\ IsErr(ret.res)

\* C2: an entry with a default and no raw value: get succeeds with exactly the
\* default; the default is not validated and a falsy default is returned.
C2_DefaultReturned ==
  (GotKnown /\ Has(config[ret.key], "default") /\ store[ret.key] = Undefined) =>
    ret.res = Ok(config[ret.key].default)

\* the default 0 of a number variable with min 1, falsy and below the
\* minimum, has been returned
C2_Witness ==
  /\ GotKnown
  /\ store[ret.key] = Undefined
  /\ config[ret.key] = numberVar([min |-> Num(1), default |-> Num(0)])
  /\ ret.res = Ok(Num(0))

\* C3: an entry of any type without default and no raw value: get fails with a
\* VariableNotFoundError that carries the key and the config, no raw value,
\* and the generic message.
C3_NotFound ==
  (GotKnown /\ ~Has(config[ret.key], "default") /\ store[ret.key] = Undefined) =>
    ret.res = Err([type |-> VariableNotFoundError,
                   key |-> ret.key,
                   config |-> Some(config[ret.key]),
                   raw |-> Undefined,
                   message |-> "Error getting environment variable " \o ret.key])

\* get has failed on a duration variable without default and without value
C3_Witness ==
  /\ GotKnown
  /\ store[ret.key] = Undefined
  /\ config[ret.key] = durationVar("seconds", NoOptions)
  /\ IsErr(ret.res)
  /\ ret.res.error.type = VariableNotFoundError

\* C4: get never throws: it returns the success variant or the failure
\* variant holding an EnvironmentError, for every schema the builders accept.
C4_GetNeverThrows ==
  ret.op = "get" =>
    \/ IsOk(ret.res)
    \/ IsErr(ret.res) /\ IsEnvironmentError(ret.res.error)

\* C5: after withVars returns normally every key of overrides holds the raw
\* value it had immediately before the call (undefined included) and withVars
\* has returned fn's result, whatever fn did to the store in between.
C5_WithVarsRestores ==
  (ret.op = "withVars" /\ IsOk(ret.res)) =>
    /\ \A k \in DOMAIN ret.vars : getRaw(store, k) = ret.before[k]
    /\ ret.res.value = ret.fnResult

\* a nested withVars has returned: A, which fn had unset before the nested
\* call, is undefined again, and the enclosing fn is still running
C5_Witness ==
  /\ ret.op = "withVars"
  /\ IsOk(ret.res)
  /\ frames # <<>>
  /\ ret.before["A"] = Undefined
  /\ ret.vars["A"] # Undefined
  /\ store["A"] = Undefined

\* C6: set(key, v) followed by getRaw(key) returns exactly v, for v a string
\* or undefined; the last set on a key wins; set changes no other key; unset
\* leaves the store as set(key, undefined) does.
C6_SetGetRaw ==
  [][/\ ret'.op = "set" =>
          /\ getRaw(store', ret'.key) = ret'.value
          /\ \A k \in Keys \ {ret'.key} : store'[k] = store[k]
     /\ (ret.op = "set" /\ ret'.op = "getRaw" /\ ret'.key = ret.key) =>
          ret'.value = ret.value
     /\ ret'.op = "unset" =>
          /\ store'[ret'.key] = Undefined
          /\ \A k \in Keys \ {ret'.key} : store'[k] = store[k]]_vars

\* set(A, undefined) has just run on a store that holds a value for B
C6_Witness ==
  /\ ret.op = "set"
  /\ ret.key = "A"
  /\ ret.value = Undefined
  /\ store["A"] = Undefined
  /\ IsDefined(store["B"])

\* C7: snapshot is all-or-nothing: when get succeeds for every key of the
\* schema it returns the map of the unwrapped get results over exactly those
\* keys; when get fails for some key it raises that key's EnvironmentError;
\* the store is unchanged.
C7_SnapshotAllOrNothing ==
  [][ret'.op = "snapshot" =>
       LET g(k) == getInner(config, store, lastIndex[k], k).res
       IN /\ (\A k \in DOMAIN config : IsOk(g(k))) =>
               /\ IsOk(ret'.res)
               /\ DOMAIN ret'.res.value = DOMAIN config
               /\ \A k \in DOMAIN config : ret'.res.value[k] = g(k).value
          /\ (\E k \in DOMAIN config : IsErr(g(k))) =>
               /\ IsThrow(ret'.res)
               /\ \E k \in DOMAIN config :
                    IsErr(g(k)) /\ ret'.res.error = g(k).error
          /\ store' = store]_vars

\* get has just returned a VariableParseError
GotParseError == IsErr(ret.res) /\ ret.res.error.type = VariableParseError

\* C8: number parsing of a present raw value: the checks run in the order
\* not-a-number, integer format, min, max and the first that fails gives the
\* VariableParseError; get succeeds with the parsed number exactly when all
\* pass, both bounds inclusive.
C8_NumberParsing ==
  (GotPresent /\ config[ret.key].type = TypeNumber) =>
    LET cfg == config[ret.key]
        raw == Get1(store[ret.key])
        v == StringToNumber(raw)
        notNumber == IsNaN(v)
        notInteger == /\ ~notNumber
                      /\ Has(cfg, "format") /\ cfg.format = "integer"
                      /\ v.n % v.d # 0
        belowMin == ~notNumber /\ Has(cfg, "min") /\ v.n * cfg.min.d < cfg.min.n * v.d
        aboveMax == ~notNumber /\ Has(cfg, "max") /\ v.n * cfg.max.d > cfg.max.n * v.d
        first == IF notNumber THEN "the value is not a number"
                 ELSE IF notInteger THEN "the value is not an integer"
                 ELSE IF belowMin THEN "the value is less than the minimum"
                 ELSE "the value is greater than the maximum"
    IN /\ IsOk(ret.res) <=> ~(notNumber \/ notInteger \/ belowMin \/ aboveMax)
       /\ IsOk(ret.res) => ret.res.value = v
       /\ ~IsOk(ret.res) =>
            /\ GotParseError
            /\ ret.res.error.message =
                 "Error parsing env var " \o ret.key \o ": " \o first
       /\ (cfg = numberVar(NoOptions) /\ raw = <<"4","2">>) =>
            ret.res = Ok(Num(42))
       /\ (cfg = numberVar([format |-> "integer"]) /\ raw = <<"4","2",".","5">>) =>
            GotParseError
       /\ (cfg = numberVar([min |-> Num(1)]) /\ raw = <<"0">>) => GotParseError
       /\ (cfg = numberVar([min |-> Num(1)]) /\ raw = <<"1">>) =>
            ret.res = Ok(Num(1))
       /\ (cfg = numberVar([max |-> Num(10)]) /\ raw = <<"1","1">>) => GotParseError
       /\ (cfg = numberVar([max |-> Num(10)]) /\ raw = <<"1","0">>) =>
            ret.res = Ok(Num(10))
       /\ raw = <<"n","o","t"," ","a"," ","n","u","m","b","e","r">> => GotParseError

\* "0.1" on an integer variable with min 1 and max 10 fails the integer check
\* and the min check: the integer check, the first of the two, is reported
C8_Witness ==
  /\ GotPresent
  /\ config[ret.key] = numberVar([format |-> "integer", min |-> Num(1), max |-> Num(10)])
  /\ store[ret.key] = Some(<<"0",".","1">>)
  /\ GotParseError
  /\ ret.res.error.message = "Error parsing env var A: the value is not an integer"

\* C9: boolean parsing is case-insensitive on both sides: true when the raw
\* value equals an entry of validTrueValues ignoring case, otherwise false
\* when it equals an entry of validFalseValues ignoring case, otherwise a
\* VariableParseError; for the default lists and for lists in any letter case.
C9_BooleanCaseInsensitive ==
  (GotPresent /\ config[ret.key].type = TypeBoolean) =>
    LET cfg == config[ret.key]
        raw == Get1(store[ret.key])
        trues == IF Has(cfg, "validTrueValues")
                 THEN cfg.validTrueValues ELSE DEFAULT_VALID_TRUE_VALUES
        falses == IF Has(cfg, "validFalseValues")
                  THEN cfg.validFalseValues ELSE DEFAULT_VALID_FALSE_VALUES
        InIgnoringCase(list) ==
          \E i \in 1..Len(list) : ToLowerCase(list[i]) = ToLowerCase(raw)
    IN IF InIgnoringCase(trues) THEN ret.res = Ok(BoolV(TRUE))
       ELSE IF InIgnoringCase(falses) THEN ret.res = Ok(BoolV(FALSE))
       ELSE GotParseError

\* C10: string parsing of a present raw value: with a pattern the value must
\* match it, else VariableParseError, and the empty check is not applied;
\* without a pattern and with shouldAllowEmpty not true a value empty after
\* trimming gives VariableParseError; otherwise get succeeds with the raw
\* string unchanged.
C10_StringParsing ==
  (GotPresent /\ config[ret.key].type = TypeString) =>
    LET cfg == config[ret.key]
        raw == Get1(store[ret.key])
        matches == /\ SourceCompiles(cfg.pattern.source)
                   /\ \E i \in 0..Len(raw) :
                        /\ i + Len(cfg.pattern.source) <= Len(raw)
                        /\ SubSeq(raw, i + 1, i + Len(cfg.pattern.source))
                             = cfg.pattern.source
    IN IF Has(cfg, "pattern")
       THEN IF matches THEN ret.res = Ok(StrV(raw)) ELSE GotParseError
       ELSE IF ~(Has(cfg, "shouldAllowEmpty") /\ cfg.shouldAllowEmpty)
               /\ \A i \in 1..Len(raw) : raw[i] \in WhiteSpace
       THEN GotParseError
       ELSE ret.res = Ok(StrV(raw))

\* C11: enum parsing of a present raw value: the permitted values are the
\* array itself or the values of the enum-like mapping; get succeeds with the
\* raw string exactly when it is one of them, compared exactly (no case
\* folding, no trimming), and otherwise fails with a VariableParseError.
C11_EnumParsing ==
  (GotPresent /\ config[ret.key].type = TypeEnum) =>
    LET cfg == config[ret.key]
        raw == Get1(store[ret.key])
        permitted == {cfg.enum.values[i] : i \in 1..Len(cfg.enum.values)}
        abc == {<<"a">>, <<"b">>, <<"c">>}
    IN /\ IF raw \in permitted THEN ret.res = Ok(StrV(raw)) ELSE GotParseError
       /\ (permitted = abc /\ raw = <<"b">>) => ret.res = Ok(StrV(<<"b">>))
       /\ (permitted = abc /\ raw \in {<<"d">>, <<"B">>, <<"b"," ">>, <<" ","b">>}) =>
            /\ GotParseError
            /\ ret.res.error.message =
                 "Error parsing env var " \o ret.key \o ": the value is not in the enum"

\* "B" has been refused by an enum given as an enum-like mapping with the
\* values a, b, c
C11_Witness ==
  /\ GotPresent
  /\ config[ret.key].type = TypeEnum
  /\ config[ret.key].enum.kind = "object"
  /\ store[ret.key] = Some(<<"B">>)
  /\ GotParseError

\* C12: duration parsing of a present raw value: the raw value is parsed as a
\* number variable without format, min and max parses it; on success get
\* returns the Duration of that number and the config's unit, on failure a
\* VariableParseError with the message the number variable gives.
C12_DurationParsing ==
  (GotPresent /\ config[ret.key].type = TypeDuration) =>
    LET cfg == config[ret.key]
        raw == Get1(store[ret.key])
        asNumber == getInner((ret.key :> numberVar(NoOptions)), store, 0, ret.key).res
    IN /\ IsOk(asNumber) =>
            ret.res = Ok([t |-> "dur", n |-> asNumber.value.n,
                          d |-> asNumber.value.d, unit |-> cfg.unit])
       /\ ~IsOk(asNumber) =>
            /\ GotParseError
            /\ ret.res.error.message = asNumber.error.message
       /\ (raw = <<"3","0">> /\ cfg.unit = "seconds") =>
            ret.res = Ok(DurationFrom(Num(30), "seconds"))
       /\ raw = <<"a","b","c">> =>
            /\ GotParseError
            /\ ret.res.error.message = "Error parsing env var A: the value is not a number"

\* "0.3" has been read as a duration of 0.3 milliseconds: no integer format
\* is applied
C12_Witness ==
  /\ GotPresent
  /\ config[ret.key] = durationVar("milliseconds", NoOptions)
  /\ store[ret.key] = Some(<<"0",".","3">>)
  /\ ret.res = Ok(DurationFrom(Dec(3, 10), "milliseconds"))

\* C13: getExpect(key, message?) agrees with get(key) on the same state: when
\* get succeeds it returns the same value; when get fails it raises an
\* EnvironmentError of the same kind and key whose message is the override
\* message if one was passed and otherwise the message of get's error (an
\* exception get raises is raised as it is); the store is left unchanged.
C13_GetExpectAgrees ==
  [][ret'.op = "getExpect" =>
       LET g == getInner(config, store, lastIndex[ret'.key], ret'.key).res
       IN /\ IsOk(g) => ret'.res = Ok(g.value)
          /\ IsErr(g) =>
               /\ IsThrow(ret'.res)
               /\ IsEnvironmentError(ret'.res.error)
               /\ ret'.res.error.type = g.error.type
               /\ ret'.res.error.key = g.error.key
               /\ ret'.res.error.message =
                    IF ret'.message = Undefined THEN g.error.message
                    ELSE ret'.message[1]
          /\ IsThrow(g) => ret'.res = g
          /\ store' = store]_vars

\* getExpect with an override message has raised a VariableParseError that
\* carries the override message
C13_Witness ==
  /\ ret.op = "getExpect"
  /\ ret.message = Some("custom message")
  /\ IsDefined(store[ret.key])
  /\ IsThrow(ret.res)
  /\ IsEnvironmentError(ret.res.error)
  /\ ret.res.error.type = VariableParseError
  /\ ret.res.error.message = "custom message"

\* C14: each of the five builders returns, for every options record and
\* without validating it, a config made of exactly the option fields plus the
\* type tag of its own kind (plus enum for enumVar, unit for durationVar), so
\* that get on the built entry runs the parser of that kind.
C14_Builders ==
  [][/\ ret'.op = "build" =>
          LET call == ret'.call
              cfg == config'["A"]
              own == CASE call.kind = TypeEnum -> {"type", "enum"}
                       [] call.kind = TypeDuration -> {"type", "unit"}
                       [] OTHER -> {"type"}
          IN /\ DOMAIN cfg = DOMAIN call.options \cup own
             /\ \A f \in DOMAIN call.options : cfg[f] = call.options[f]
             /\ cfg.type = call.kind
             /\ call.kind = TypeEnum => cfg.enum = call.enum
             /\ call.kind = TypeDuration => cfg.unit = call.unit
     /\ (ret.op = "build" /\ ret'.op = "get" /\ ret'.key = "A"
           /\ IsDefined(store["A"])) =>
          LET kind == ret.call.kind
              cfg == config["A"]
              raw == Get1(store["A"])
              parsed == CASE kind = TypeString -> parseAsString(raw, cfg, 0).res
                          [] kind = TypeNumber -> parseAsNumber(raw, cfg)
                          [] kind = TypeBoolean -> parseAsBoolean(raw, cfg)
                          [] kind = TypeEnum -> parseAsEnum(raw, cfg)
                          [] kind = TypeDuration -> parseAsDuration(raw, cfg)
          IN ret'.res = constructResult(parsed, "A", cfg, raw)]_vars

\* numberVar has been called with min 10 and max 1 and has returned the
\* options with the number tag, unvalidated
C14_Witness ==
  /\ ret.op = "build"
  /\ ret.call.kind = TypeNumber
  /\ ret.call.options = [min |-> Num(10), max |-> Num(1)]
  /\ config["A"] = [type |-> TypeNumber, min |-> Num(10), max |-> Num(1)]

\* C15, as stated: when fn raises inside withVars(overrides, fn), every key
\* of overrides holds its override value afterwards.
C15_OverridesRemain ==
  (ret.op = "withVars" /\ IsThrow(ret.res)) =>
    \A k \in DOMAIN ret.vars : store[k] = ret.vars[k]

\* C15, amended: when fn raises inside withVars(overrides, fn), the exception
\* propagates out of withVars and withVars writes nothing more: the store
\* stays as fn left it, so that every key of overrides holds its override
\* value when fn raised without writing to the store.
C15_RaiseSkipsRestore ==
  [][(ret'.op = "withVars" /\ IsThrow(ret'.res)) =>
       /\ ret'.res = Throw(FnError)
       /\ store' = store
       /\ ret.op = "withVars.call" =>
            \A k \in DOMAIN ret'.vars : store'[k] = ret'.vars[k]]_vars

\* fn has raised: A, undefined before the call, still holds the override
\* value and B, defined before the call, is still undefined
C15_Witness ==
  /\ ret.op = "withVars"
  /\ IsThrow(ret.res)
  /\ frames = <<>>
  /\ ret.before["A"] = Undefined
  /\ IsDefined(ret.before["B"])
  /\ store["A"] = ret.vars["A"]
  /\ store["B"] = Undefined

\* C16: every failure of a type parser on a present raw value is returned by
\* get as a VariableParseError that carries the key, the matched config and
\* the raw string, with message "Error parsing env var {key}: {text}"; an
\* error of another kind carries no raw value.
C16_ParseErrorContents ==
  /\ (GotPresent /\ ~IsOk(ret.res)) =>
       /\ IsErr(ret.res)
       /\ IsEnvironmentError(ret.res.error)
       /\ ret.res.error.type = VariableParseError
       /\ ret.res.error.key = ret.key
       /\ ret.res.error.config = Some(config[ret.key])
       /\ ret.res.error.raw = store[ret.key]
       /\ \E text \in {"the value is not a boolean", "the value is not in the enum",
                       "the value is not a number", "the value is not an integer",
                       "the value is less than the minimum",
                       "the value is greater than the maximum",
                       "the value does not match the pattern", "the value is empty"} :
            ret.res.error.message = "Error parsing env var " \o ret.key \o ": " \o text
  /\ (ret.op = "get" /\ IsErr(ret.res) /\ ret.res.error.type # VariableParseError) =>
       ret.res.error.raw = Undefined

\* C19: a default is used only when the raw value is undefined: on a present
\* raw value, the empty string included, get of an entry with a default
\* returns what the type parser makes of the raw value, as for the entry
\* without the default, and a parse failure is returned as a
\* VariableParseError; get never falls back to the default.
C19_DefaultOnlyWhenUndefined ==
  [][(ret'.op = "get" /\ ret'.key \in DOMAIN config
        /\ IsDefined(store[ret'.key]) /\ Has(config[ret'.key], "default")) =>
       LET key == ret'.key
           cfg == config[key]
           bare == [f \in DOMAIN cfg \ {"default"} |-> cfg[f]]
           r == ParseResult(bare, key, Get1(store[key]), lastIndex[key]).res
       IN /\ IsOk(r) => ret'.res = r
          /\ ~IsOk(r) =>
               /\ IsErr(ret'.res)
               /\ ret'.res.error.type = VariableParseError
               /\ ret'.res.error.raw = store[key]
               /\ IsErr(r) /\ ret'.res.error.message = r.error.message]_vars

\* C17: the accessor holds the injected store by reference: getRaw(key) is
\* the mapping's current value for key; a write made through set, unset or
\* withVars is what another holder of the mapping reads next; a write made by
\* another holder is what the next getRaw returns and what the next get
\* parses.
C17_StoreByReference ==
  [][/\ ret'.op = "getRaw" => ret'.value = store'[ret'.key]
     /\ (ret'.op = "outside.read" /\ ret.op = "set" /\ ret'.key = ret.key) =>
          ret'.value = ret.value
     /\ (ret'.op = "outside.read" /\ ret.op = "unset" /\ ret'.key = ret.key) =>
          ret'.value = Undefined
     /\ (ret'.op = "outside.read" /\ ret.op = "withVars.call") =>
          ret'.value = ret.vars[ret'.key]
     /\ (ret'.op = "outside.read" /\ ret.op = "withVars" /\ IsOk(ret.res)) =>
          ret'.value = ret.before[ret'.key]
     /\ (ret.op = "outside.write" /\ ret'.op = "getRaw" /\ ret'.key = ret.key) =>
          ret'.value = ret.value
     /\ (ret.op = "outside.write" /\ ret'.op = "get" /\ ret'.key = ret.key) =>
          ret'.res = IF ret.value = Undefined
                     THEN AbsentResult(config[ret.key], ret.key)
                     ELSE ParseResult(config[ret.key], ret.key, ret.value[1],
                                      lastIndex[ret.key]).res]_vars

\* another holder of the mapping has read A right after a write made
\* through the accessor inside a running withVars, and has seen a value that
\* is neither the override nor the value from before the call
C17_Witness ==
  /\ ret.op = "outside.read"
  /\ ret.afterWrite
  /\ ret.key = "A"
  /\ ret.value = Some(<<"a">>)
  /\ frames # <<>>
  /\ frames[1].vars["A"] # Some(<<"a">>)
  /\ frames[1].before["A"] # Some(<<"a">>)

\* C20: get and getRaw are pure queries: they change neither the store nor
\* the schema nor the state held inside a config's compiled pattern, and two
\* get(key) calls with nothing between them return equal results.
C20_PureQueries ==
  [][/\ ret'.op \in {"get", "getRaw"} =>
          /\ store' = store
          /\ config' = config
          /\ lastIndex' = lastIndex
     /\ (ret.op = "get" /\ ret'.op = "get" /\ ret'.key = ret.key) =>
          ret'.res = ret.res]_vars

====
